---- MODULE Spec2Model ----
(***************************************************************************)
(* A model of django-ninja-extra's controller layer:                       *)
(*   - the request lifecycle of Operation.run / AsyncOperation.run         *)
(*     (src/ninja_extra/operation.py),                                     *)
(*   - the permission and object-lookup helpers of ControllerBase and the  *)
(*     class decorator APIController (src/ninja_extra/controllers/base.py).*)
(*                                                                         *)
(* External collaborators (auth callbacks, the CSRF check, the signature   *)
(* layer, the handler, the response converter, permission rules, the ORM   *)
(* lookup) are inputs: each action draws their outcome from the set of     *)
(* outcomes the calling code distinguishes.                                *)
(***************************************************************************)
EXTENDS Integers, Sequences, FiniteSets, TLC

VARIABLES
    operation,          \* the Operation serving the requests (fixed after Init)
    pc,                 \* per request: position inside run
    request,            \* per request: the attributes run writes (request.auth)
    kw,                 \* per request: the URL keyword arguments handed to run
    error,              \* per request: run's local `error`, the checks' answer
    values,             \* per request: run's local `values`
    cbIndex,            \* per request: position of the auth-callback loop
    called,             \* per request: auth callbacks invoked so far, in order
    temporal_response,  \* per request: the temporal response, once created
    context,            \* per request: the RouteContext built by _prep_run
    result,             \* per request: what the handler / the converter produced
    exc,                \* per request: the exception in flight, if any
    returned,           \* per request: what run returned
    events,             \* per request: the observable events of the run, in order
    controller,         \* ControllerBase instance: its context attribute
    permLog,            \* rules instantiated / evaluated by the last helper call
    outcome,            \* what the last ControllerBase helper call did
    classes,            \* the class hierarchy: per class its base and its own routes
    descriptors,        \* APIController instances: controller_class, path groups
    routes,             \* RouteFunction.route.route_params, per route function
    routeOwner,         \* RouteFunction.api_controller, per route function
    registry,           \* ControllerRegistry: the controller classes added
    mounted,            \* the last build_routers / urls_paths result
    accessed,           \* the last get_api_controller call and what it did
    path_view,          \* a PathView receiving add_operation calls
    configured          \* an Operation and the auth its _set_auth was given

runVars == <<operation, pc, request, kw, error, values, cbIndex, called,
             temporal_response, context, result, exc, returned, events>>
permVars == <<controller, permLog, outcome>>
regVars == <<classes, descriptors, routes, routeOwner, registry,
             mounted, accessed, path_view>>
authVars == <<configured>>
vars == <<runVars, permVars, regVars, authVars>>

None == "None"

----------------------------------------------------------------------------
(* Bounds *)

MaxCallbacks == 2       \* longest auth-callback chain
MaxPerms == 2           \* longest permission-rule list
MaxDecorations == 2     \* applications of a controller decorator in one run

----------------------------------------------------------------------------
(* Values *)

Requests == {"r1"}

\* Permission classes: what has_permission / has_object_permission answer and
\* the message attribute a rule carries.
PermClasses == {"AllowAny", "Deny", "DenyMsg"}

SeqUpTo(S, n) == UNION {[1..k -> S] : k \in 0..n}

EmptyDict == [k \in {} |-> None]

\* dict.update
Update(d, v) ==
    [k \in (DOMAIN d) \cup (DOMAIN v) |-> IF k \in DOMAIN v THEN v[k] ELSE d[k]]

\* URL keyword arguments handed to run, and what _get_values may extract.
KwChoices == {EmptyDict, [k \in {"id"} |-> "url"]}
ValueChoices == {EmptyDict, [k \in {"id"} |-> "parsed"],
                 [k \in {"id", "q"} |-> "parsed"]}

\* Exceptions the collaborators may raise.  "TypeErrorArg" is a TypeError whose
\* text contains 'required positional argument'.
ExcKinds == {"APIException", "TypeErrorArg", "Exception"}

Exc(kind, origin) == [kind |-> kind, origin |-> origin, msg |-> "original"]
NoExc == [kind |-> None, origin |-> None, msg |-> None]

Ev(e, p, q) == [ev |-> e, p |-> p, q |-> q]

NoContext ==
    [built |-> FALSE, request |-> None, temporal_response |-> None,
     permission_classes |-> <<>>, kwargs |-> EmptyDict]

Response(kind, status, body) == [kind |-> kind, status |-> status, body |-> body]
NoResponse == Response(None, 0, None)

\* api.on_exception(request, exc): the framework's exception translator.
OnExceptionResponse(e) ==
    Response("on_exception", IF e.kind = "APIException" THEN 400 ELSE 500, e.origin)

\* api.create_response(request, {"detail": "Unauthorized"}, status=401)
Unauthorized == Response("create_response", 401, "detail: Unauthorized")

\* check_csrf's error response
CsrfFailed == Response("check_csrf", 403, "CSRF check Failed")

\* An auth parameter: ninja's NOT_SET sentinel, None, one callable, or a list
\* of callables.
NOT_SET == [kind |-> "NOT_SET", items |-> <<>>]
NoAuth == [kind |-> "None", items |-> <<>>]
Callable(cb) == [kind |-> "callable", items |-> <<cb>>]
AuthList(cbs) == [kind |-> "list", items |-> cbs]

\* Python truthiness of an auth parameter: None and the empty list are falsy;
\* a callable, a non-empty list and the NOT_SET sentinel (an object without
\* __bool__ or __len__) are truthy.
AuthTruthy(a) ==
    a.kind \in {"NOT_SET", "callable"} \/ (a.kind = "list" /\ a.items # <<>>)

\* `auth or self.auth` of add_api_operation.
AuthOrControllerAuth(auth, controllerAuth) ==
    IF AuthTruthy(auth) THEN auth ELSE controllerAuth

\* An Operation as _set_auth sees it: whether the handler is a coroutine
\* function, the auth callbacks, and the exception its configuration raised.
NewOperation(is_coroutine) ==
    [is_coroutine |-> is_coroutine, auth_callbacks |-> <<>>, raised |-> None]

\* No _set_auth call is being studied.
Unconfigured ==
    [operation |-> NewOperation(FALSE), auth |-> NOT_SET, called |-> FALSE]

----------------------------------------------------------------------------
(* Operation.get_execution_context *)

\* route_function.route.permissions: Optional list.  declared = FALSE is None.
NoPermissions == [declared |-> FALSE, rules |-> <<>>]
Declared(rules) == [declared |-> TRUE, rules |-> rules]

\* Python truth of an Optional list: None and [] are both falsy.
Truthy(perms) == perms.declared /\ perms.rules # <<>>

\* The mutant: the controller's default wins over the route's own list.
ResolvePermissionsControllerFirst(op) ==
    IF op.view = "route"
    THEN IF op.controller_permissions # <<>>
         THEN op.controller_permissions
         ELSE op.route_permissions.rules
    ELSE <<>>

\* operation.view: "plain" for a function without get_route_function, "route"
\* for RouteFunction.as_view.  controller_permissions is
\* route_function.get_api_controller().permission_classes.
ResolvePermissions(op) ==
    IF op.view = "route"
    THEN IF Truthy(op.route_permissions)
         THEN op.route_permissions.rules
         ELSE op.controller_permissions
    ELSE <<>>

\* The mutant: one context, kept for the Operation, is handed to every run.
GetExecutionContextShared(op, r, temporal, kwargs) ==
    [built |-> TRUE, request |-> "r1", temporal_response |-> temporal,
     permission_classes |-> ResolvePermissions(op), kwargs |-> EmptyDict]

GetExecutionContext(op, r, temporal, kwargs) ==
    [built |-> TRUE, request |-> r, temporal_response |-> temporal,
     permission_classes |-> ResolvePermissions(op), kwargs |-> kwargs]

----------------------------------------------------------------------------
(* Operation._log_action *)

\* The entry handed to the logger: its level and, for an exception, which of
\* ex.status_code / force_str(ex.args) the message ends with.  The message is
\* built inside a try; building it raises only for a route function without an
\* api_controller, and then only a debug entry is written.
LogAction(op, level, e) ==
    IF op.view = "route" /\ ~op.bound
    THEN Ev("log", "debug", None)
    ELSE Ev("log", level,
            IF e.kind = None THEN None
            ELSE IF e.kind = "APIException" THEN "status_code" ELSE "args")

----------------------------------------------------------------------------
(* _run_checks and _run_authentication *)

\* What an auth callback may answer: an identity (truthy), a falsy value, or
\* an exception.
Identities == {"user", "token"}
Falsy == "falsy"
AuthResults == Identities \cup {Falsy}

\* The mutant: a truthy answer is stored but the loop goes on.
AuthTurnNoReturn(n, i, res) ==
    IF i < n
    THEN [stop |-> FALSE, auth |-> res, error |-> NoResponse]
    ELSE [stop |-> TRUE, auth |-> res, error |-> Unauthorized]

\* One turn of the loop of _run_authentication over n callbacks, callback i
\* having answered res without raising: whether the loop ends, what is stored
\* as request.auth (None: nothing is stored) and what is returned.
AuthTurn(n, i, res) ==
    IF res # Falsy
    THEN [stop |-> TRUE, auth |-> res, error |-> NoResponse]
    ELSE IF i < n
         THEN [stop |-> FALSE, auth |-> None, error |-> NoResponse]
         ELSE [stop |-> TRUE, auth |-> None, error |-> Unauthorized]

\* The mutant: run goes on although the checks returned an error.
AfterChecksIgnoreError(err) == "temporal"

\* run: error = self._run_checks(request); if error: return error
AfterChecks(err) == IF err # NoResponse THEN "done" ELSE "temporal"

----------------------------------------------------------------------------
(* Operation.run / AsyncOperation.run *)

Emit(r, es) == events' = [events EXCEPT ![r] = @ \o es]

Goto(r, to) == pc' = [pc EXCEPT ![r] = to]

Return(r, resp) ==
    /\ returned' = [returned EXCEPT ![r] = resp]
    /\ Goto(r, "done")

Raise(r, e, to) ==
    /\ exc' = [exc EXCEPT ![r] = e]
    /\ Goto(r, to)

\* _run_checks, first half: authentication only when callbacks exist.
RunChecks(r) ==
    /\ pc[r] = "start"
    /\ Goto(r, IF operation.auth_callbacks # <<>> THEN "auth" ELSE "csrf")
    /\ Emit(r, <<Ev("run", operation.mode, None)>>)
    /\ UNCHANGED <<permVars, regVars, authVars>>
    /\ UNCHANGED <<operation, request, kw, error, values, cbIndex, called,
                   temporal_response, context, result, exc, returned>>

\* The mutant: the exception of a callback is swallowed and the loop goes on.
AuthRaisedSkipsCallback(n, i, k) ==
    IF i < n
    THEN [stop |-> FALSE, auth |-> None, error |-> NoResponse]
    ELSE [stop |-> TRUE, auth |-> None, error |-> Unauthorized]

\* One turn of the loop, callback i having raised an exception of kind k: the
\* except clause returns api.on_exception's response; nothing is stored.
AuthRaised(n, i, k) ==
    [stop |-> TRUE, auth |-> None, error |-> OnExceptionResponse(Exc(k, "auth"))]

\* _run_authentication: one turn of the loop over auth_callbacks.  A callback
\* that raises ends the chain with api.on_exception's response.
RunAuthentication(r) ==
    /\ pc[r] = "auth"
    /\ LET i == cbIndex[r]
           n == Len(operation.auth_callbacks)
       IN  \/ \E res \in AuthResults :
                LET t == AuthTurn(n, i, res) IN
                /\ called' = [called EXCEPT ![r] = Append(@, [i |-> i, out |-> res])]
                /\ request' = [request EXCEPT ![r].auth =
                                  IF t.auth = None THEN @ ELSE t.auth]
                /\ error' = [error EXCEPT ![r] = t.error]
                /\ cbIndex' = [cbIndex EXCEPT ![r] = IF t.stop THEN @ ELSE i + 1]
                /\ Goto(r, IF ~t.stop THEN "auth"
                           ELSE IF t.error # NoResponse THEN "checked" ELSE "csrf")
                /\ Emit(r, <<Ev("auth_callback", None, None)>>)
           \/ \E k \in ExcKinds :
                LET t == AuthRaised(n, i, k) IN
                /\ called' = [called EXCEPT ![r] = Append(@, [i |-> i, out |-> "raise"])]
                /\ request' = [request EXCEPT ![r].auth =
                                  IF t.auth = None THEN @ ELSE t.auth]
                /\ error' = [error EXCEPT ![r] = t.error]
                /\ cbIndex' = [cbIndex EXCEPT ![r] = IF t.stop THEN @ ELSE i + 1]
                /\ Goto(r, IF ~t.stop THEN "auth"
                           ELSE IF t.error # NoResponse THEN "checked" ELSE "csrf")
                /\ Emit(r, <<Ev("auth_callback", None, None)>> \o
                            (IF t.error.kind = "on_exception"
                             THEN <<Ev("on_exception", k, "auth")>> ELSE <<>>))
    /\ UNCHANGED <<permVars, regVars, authVars>>
    /\ UNCHANGED <<operation, kw, values, temporal_response, context, result,
                   exc, returned>>

\* _run_checks, second half: check_csrf when the API has csrf on.
CheckCsrf(r) ==
    /\ pc[r] = "csrf"
    /\ \/ /\ operation.csrf
          /\ \E err \in {NoResponse, CsrfFailed} :
                error' = [error EXCEPT ![r] = err]
          /\ Emit(r, <<Ev("check_csrf", None, None)>>)
       \/ /\ ~operation.csrf
          /\ UNCHANGED <<error, events>>
    /\ Goto(r, "checked")
    /\ UNCHANGED <<permVars, regVars, authVars>>
    /\ UNCHANGED <<operation, request, kw, values, cbIndex, called,
                   temporal_response, context, result, exc, returned>>

\* run: if error: return error
RunAfterChecks(r) ==
    /\ pc[r] = "checked"
    /\ IF AfterChecks(error[r]) = "done"
       THEN Return(r, error[r])
       ELSE Goto(r, AfterChecks(error[r])) /\ UNCHANGED returned
    /\ UNCHANGED <<permVars, regVars, authVars>>
    /\ UNCHANGED <<operation, request, kw, error, values, cbIndex, called,
                   temporal_response, context, result, exc, events>>

\* api.create_temporal_response(request): inside run's try, before _prep_run.
CreateTemporalResponse(r) ==
    /\ pc[r] = "temporal"
    /\ \/ /\ temporal_response' = [temporal_response EXCEPT ![r] = "temporal"]
          /\ Emit(r, <<Ev("temporal_response", None, None)>>)
          /\ Goto(r, "prep")
          /\ UNCHANGED exc
       \/ /\ \E k \in ExcKinds : Raise(r, Exc(k, "temporal_response"), "except_run")
          /\ UNCHANGED <<temporal_response, events>>
    /\ UNCHANGED <<permVars, regVars, authVars>>
    /\ UNCHANGED <<operation, request, kw, error, values, cbIndex, called,
                   context, result, returned>>

\* _prep_run up to the signal: start the clock, build the context.
PrepRunEnter(r) ==
    /\ pc[r] = "prep"
    /\ \/ /\ context' = [context EXCEPT ![r] =
                GetExecutionContext(operation, r, temporal_response[r], kw[r])]
          /\ Emit(r, <<Ev("prep_run", None, None), Ev("context_built", r, None)>>)
          /\ Goto(r, "started")
          /\ UNCHANGED exc
       \/ /\ \E k \in ExcKinds : Raise(r, Exc(k, "context"), "except_prep")
          /\ Emit(r, <<Ev("prep_run", None, None)>>)
          /\ UNCHANGED context
    /\ UNCHANGED <<permVars, regVars, authVars>>
    /\ UNCHANGED <<operation, request, kw, error, values, cbIndex, called,
                   temporal_response, result, returned>>

\* Signal.send calls the receivers one after the other and lets a receiver's
\* exception through to the sender.
ObserverOrigins == {"context_started", "context_finished"}

\* The mutant: the started signal is not sent.
StartedSignalNotSent(ctx) == <<>>

\* route_context_started.send(RouteContext, route_context=context)
StartedSignal(ctx) == <<Ev("context_started", ctx.request, None)>>

\* route_context_started.send(RouteContext, route_context=context); yield context
SendStarted(r) ==
    /\ pc[r] = "started"
    /\ Emit(r, StartedSignal(context[r]))
    /\ \/ Goto(r, "values") /\ UNCHANGED exc
       \/ \E k \in ExcKinds : Raise(r, Exc(k, "context_started"), "except_prep")
    /\ UNCHANGED <<permVars, regVars, authVars>>
    /\ UNCHANGED <<operation, request, kw, error, values, cbIndex, called,
                   temporal_response, context, result, returned>>

\* The mutant: the extracted values replace the context's kwargs.
MergeKwargsReplace(d, v) == v

\* ctx.kwargs.update(values)
MergeKwargs(d, v) == Update(d, v)

\* with-body: values = _get_values(...); ctx.kwargs.update(values)
GetValues(r) ==
    /\ pc[r] = "values"
    /\ \/ \E v \in ValueChoices :
            /\ values' = [values EXCEPT ![r] = v]
            /\ context' = [context EXCEPT ![r].kwargs = MergeKwargs(@, v)]
            /\ Emit(r, <<Ev("get_values", None, None), Ev("kwargs_update", None, None)>>)
            /\ Goto(r, "view")
            /\ UNCHANGED exc
       \/ /\ \E k \in ExcKinds : Raise(r, Exc(k, "get_values"), "except_prep")
          /\ Emit(r, <<Ev("get_values", None, None)>>)
          /\ UNCHANGED <<context, values>>
    /\ UNCHANGED <<permVars, regVars, authVars>>
    /\ UNCHANGED <<operation, request, kw, error, cbIndex, called,
                   temporal_response, result, returned>>

\* with-body: result = view_func(request, **values)
ViewFunc(r) ==
    /\ pc[r] = "view"
    /\ Emit(r, <<Ev("view_func", None, None)>>)
    /\ \/ /\ result' = [result EXCEPT ![r] = "result"]
          /\ Goto(r, "convert")
          /\ UNCHANGED exc
       \/ /\ \E k \in ExcKinds : Raise(r, Exc(k, "view_func"), "except_prep")
          /\ UNCHANGED result
    /\ UNCHANGED <<permVars, regVars, authVars>>
    /\ UNCHANGED <<operation, request, kw, error, values, cbIndex, called,
                   temporal_response, context, returned>>

\* The converted response run returns.
Processed == Response("result_to_response", 200, "processed")

\* with-body: _result_to_response(request, result, temporal_response); return
ResultToResponse(r) ==
    /\ pc[r] = "convert"
    /\ Emit(r, <<Ev("result_to_response", None, None)>>)
    /\ \/ /\ result' = [result EXCEPT ![r] = "processed"]
          /\ Goto(r, "log_info")
          /\ UNCHANGED exc
       \/ /\ \E k \in ExcKinds : Raise(r, Exc(k, "result_to_response"), "except_prep")
          /\ UNCHANGED result
    /\ UNCHANGED <<permVars, regVars, authVars>>
    /\ UNCHANGED <<operation, request, kw, error, values, cbIndex, called,
                   temporal_response, context, returned>>

\* _prep_run after the yield, normal exit: the info entry.
PrepRunLogInfo(r) ==
    /\ pc[r] = "log_info"
    /\ Emit(r, <<LogAction(operation, "info", NoExc)>>)
    /\ Goto(r, "finally")
    /\ UNCHANGED <<permVars, regVars, authVars>>
    /\ UNCHANGED <<operation, request, kw, error, values, cbIndex, called,
                   temporal_response, context, result, exc, returned>>

\* _prep_run's except: the error entry, then raise e.
PrepRunExcept(r) ==
    /\ pc[r] = "except_prep"
    /\ Emit(r, <<LogAction(operation, "error", exc[r]),
                 Ev("reraise", exc[r].kind, exc[r].origin)>>)
    /\ Goto(r, "finally")
    /\ UNCHANGED <<permVars, regVars, authVars>>
    /\ UNCHANGED <<operation, request, kw, error, values, cbIndex, called,
                   temporal_response, context, result, exc, returned>>

\* The mutant: the finished signal is sent in the except clause and again in
\* the finally clause.
PrepRunCleanupTwice(e) ==
    IF e = NoExc THEN <<Ev("context_finished", None, None)>>
    ELSE <<Ev("context_finished", None, None), Ev("context_finished", None, None)>>

\* The mutant: the finished signal is sent on the normal exit only.
PrepRunCleanupOnSuccessOnly(e) ==
    IF e = NoExc THEN <<Ev("context_finished", None, None)>> ELSE <<>>

\* _prep_run's finally: route_context_finished.send(RouteContext, route_context=None)
PrepRunCleanup(e) == <<Ev("context_finished", None, None)>>

\* The mutant: the context manager swallows the exception.
AfterPrepRunSwallow(e) == "done"

\* Where control goes when _prep_run is left: the with-body's return completes,
\* or the re-raised exception reaches run's except.
AfterPrepRun(e) == IF e = NoExc THEN "done" ELSE "except_run"

\* The finally clause.  An exception of a receiver of the finished signal
\* leaves the finally clause in place of whatever was in flight.
PrepRunFinally(r) ==
    /\ pc[r] = "finally"
    /\ Emit(r, PrepRunCleanup(exc[r]))
    /\ \/ /\ IF AfterPrepRun(exc[r]) = "done"
             THEN Return(r, Processed)
             ELSE Goto(r, AfterPrepRun(exc[r])) /\ UNCHANGED returned
          /\ UNCHANGED exc
       \/ /\ \E k \in ExcKinds :
                Raise(r, Exc(k, "context_finished"), AfterPrepRun(Exc(k, "context_finished")))
          /\ UNCHANGED returned
    /\ UNCHANGED <<permVars, regVars, authVars>>
    /\ UNCHANGED <<operation, request, kw, error, values, cbIndex, called,
                   temporal_response, context, result>>

\* The argument-binding diagnostic of the synchronous run.
RewriteMessage(mode, e) ==
    IF mode = "sync" /\ e.kind = "TypeErrorArg"
    THEN [e EXCEPT !.msg = "rewritten"]
    ELSE e

\* run's except: return self.api.on_exception(request, e)
RunExcept(r) ==
    /\ pc[r] = "except_run"
    /\ LET e == RewriteMessage(operation.mode, exc[r]) IN
       /\ exc' = [exc EXCEPT ![r] = e]
       /\ Emit(r, <<Ev("on_exception", e.kind, e.origin)>>)
       /\ Return(r, OnExceptionResponse(e))
    /\ UNCHANGED <<permVars, regVars, authVars>>
    /\ UNCHANGED <<operation, request, kw, error, values, cbIndex, called,
                   temporal_response, context, result>>

----------------------------------------------------------------------------
(* The operations a request can be served by *)

\* auth_callbacks: the is_coroutine flag of each callback, in declaration order;
\* _set_auth refuses a coroutine callback on a synchronous handler.  An
\* Operation over a route function exists only once the decorator has bound
\* the route function to its APIController.
Operations ==
    { [mode |-> m, auth_callbacks |-> a, csrf |-> c, view |-> v, bound |-> TRUE,
       route_permissions |-> rp, controller_permissions |-> cp] :
        m \in {"sync", "async"}, a \in SeqUpTo(BOOLEAN, MaxCallbacks),
        c \in BOOLEAN, v \in {"plain", "route"},
        rp \in {NoPermissions, Declared(<<"Deny">>)}, cp \in {<<"AllowAny">>} }

ValidOperation(op) ==
    /\ op.mode = "sync" => \A i \in DOMAIN op.auth_callbacks : ~op.auth_callbacks[i]
    /\ op.view = "plain" => op.route_permissions = NoPermissions

NoRequestState == [auth |-> None]

\* The state of the ControllerBase helpers and of the decorator while the
\* request lifecycle is studied alone.
NoController == [context |-> NoContext]
NoOutcome ==
    [op |-> None, key |-> 0, raised |-> None, message |-> None, returned |-> None]

RunInit ==
    /\ operation \in {op \in Operations : ValidOperation(op)}
    /\ kw \in [Requests -> KwChoices]
    /\ pc = [r \in Requests |-> "start"]
    /\ request = [r \in Requests |-> NoRequestState]
    /\ error = [r \in Requests |-> NoResponse]
    /\ values = [r \in Requests |-> EmptyDict]
    /\ cbIndex = [r \in Requests |-> 1]
    /\ called = [r \in Requests |-> <<>>]
    /\ temporal_response = [r \in Requests |-> None]
    /\ context = [r \in Requests |-> NoContext]
    /\ result = [r \in Requests |-> None]
    /\ exc = [r \in Requests |-> NoExc]
    /\ returned = [r \in Requests |-> NoResponse]
    /\ events = [r \in Requests |-> <<>>]
    /\ controller = NoController
    /\ permLog = <<>>
    /\ outcome = NoOutcome
    /\ classes = <<>>
    /\ descriptors = <<>>
    /\ routes = <<>>
    /\ routeOwner = <<>>
    /\ registry = {}
    /\ mounted = <<>>
    /\ accessed = <<>>
    /\ path_view = <<>>
    /\ configured = Unconfigured

RunNext ==
    \E r \in Requests :
        \/ RunChecks(r)
        \/ RunAuthentication(r)
        \/ CheckCsrf(r)
        \/ RunAfterChecks(r)
        \/ CreateTemporalResponse(r)
        \/ PrepRunEnter(r)
        \/ SendStarted(r)
        \/ GetValues(r)
        \/ ViewFunc(r)
        \/ ResultToResponse(r)
        \/ PrepRunLogInfo(r)
        \/ PrepRunExcept(r)
        \/ PrepRunFinally(r)
        \/ RunExcept(r)

SpecRun == RunInit /\ [][RunNext]_vars

----------------------------------------------------------------------------
(* Properties of the request lifecycle, checked under SpecRun *)

Count(seq, name) == Cardinality({i \in DOMAIN seq : seq[i].ev = name})

LogCount(seq, level) ==
    Cardinality({i \in DOMAIN seq : seq[i].ev = "log" /\ seq[i].p = level})

Names(seq) == [i \in DOMAIN seq |-> seq[i].ev]

Rep(n, x) == [i \in 1..n |-> x]

\* Everything run does after the checks.
LifecycleEvents ==
    {"temporal_response", "prep_run", "context_built", "context_started",
     "get_values", "kwargs_update", "view_func", "result_to_response", "log",
     "reraise", "context_finished"}

StepsInsidePrepRun == {"context", "get_values", "view_func", "result_to_response"}

Failed(r) == pc[r] = "done" /\ returned[r] # Processed

Successful(r) == pc[r] = "done" /\ returned[r] = Processed

\* C1: when the auth check or the CSRF check answers with an error response,
\* run returns exactly that response and nothing of the lifecycle happens: no
\* temporal response, no context, no started or finished signal, no handler
\* call, no log entry.
C1_CheckErrorReturnedAlone ==
    \A r \in Requests :
        error[r] # NoResponse =>
            /\ pc[r] \in {"checked", "done"}
            /\ pc[r] = "done" => returned[r] = error[r]
            /\ \A i \in DOMAIN events[r] : events[r][i].ev \notin LifecycleEvents
            /\ temporal_response[r] = None
            /\ ~context[r].built
            /\ exc[r] = NoExc

C1_Witness ==
    \E r \in Requests :
        /\ pc[r] = "done"
        /\ request[r].auth # None
        /\ error[r] = CsrfFailed
        /\ returned[r] = CsrfFailed

\* C2: a run that enters _prep_run sends the finished signal exactly once, with
\* no payload, whether the steps inside succeed or one of them raises.
C2_FinishedExactlyOnce ==
    \A r \in Requests :
        /\ Count(events[r], "context_finished") <= 1
        /\ \A i \in DOMAIN events[r] :
              events[r][i].ev = "context_finished" => events[r][i].p = None
        /\ (pc[r] \in {"except_run", "done"} /\ Count(events[r], "prep_run") > 0)
              => Count(events[r], "context_finished") = 1

C2_Witness ==
    \E r \in Requests :
        /\ pc[r] = "done"
        /\ exc[r].origin = "view_func"
        /\ Count(events[r], "context_finished") = 1

\* C3 as stated: every failed run, whatever failed, sends the finished signal
\* exactly once.
C3_EveryFailureFinishesOnce ==
    \A r \in Requests :
        Failed(r) => Count(events[r], "context_finished") = 1

\* C3 amended: a failure inside _prep_run (context build, argument extraction,
\* handler, conversion) sends the finished signal exactly once; a failure
\* before it (authentication, CSRF, creating the temporal response) sends none.
C3_FailureFinishesOnceInsidePrepRun ==
    \A r \in Requests :
        Failed(r) =>
            Count(events[r], "context_finished") =
                IF exc[r].origin \in StepsInsidePrepRun \cup ObserverOrigins
                THEN 1 ELSE 0

C3_Witness ==
    \E r \in Requests :
        /\ Failed(r)
        /\ exc[r].origin = "temporal_response"
        /\ Count(events[r], "context_finished") = 0

SuccessfulRunEvents(r) ==
    <<"run">> \o Rep(Len(called[r]), "auth_callback")
        \o (IF operation.csrf THEN <<"check_csrf">> ELSE <<>>)
        \o <<"temporal_response", "prep_run", "context_built", "context_started",
             "get_values", "kwargs_update", "view_func", "result_to_response",
             "log", "context_finished">>

\* C5: a successful run goes through checks, context build, started signal
\* (payload: that context), extraction and merge of the keyword arguments,
\* handler, conversion, one info entry, finished signal, in this order and each
\* once, returns the converted response and writes no error entry.
C5_SuccessfulRunOrder ==
    \A r \in Requests :
        Successful(r) =>
            /\ Names(events[r]) = SuccessfulRunEvents(r)
            /\ \A i \in DOMAIN events[r] :
                  /\ events[r][i].ev = "log" => events[r][i].p = "info"
                  /\ events[r][i].ev = "context_started" => events[r][i].p = r
                  /\ events[r][i].ev = "context_built" => events[r][i].p = r
            /\ context[r].built
            /\ context[r].request = r
            /\ context[r].kwargs = Update(kw[r], values[r])
            /\ exc[r] = NoExc

C5_Witness ==
    \E r \in Requests :
        /\ Successful(r)
        /\ Len(called[r]) = 2
        /\ operation.csrf
        /\ kw[r] # EmptyDict
        /\ values[r] = EmptyDict

\* C18 as stated: an exception of an observer of the started or the finished
\* signal does not reach the request path: api.on_exception is never called
\* with it, a run that got as far as the started signal invokes the handler,
\* and a run whose handler and conversion succeeded returns the converted
\* response.
C18_ObserverExceptionContained ==
    \A r \in Requests :
        /\ \A i \in DOMAIN events[r] :
              events[r][i].ev = "on_exception" => events[r][i].q \notin ObserverOrigins
        /\ exc[r].origin \notin ObserverOrigins
        /\ (pc[r] = "done" /\ result[r] = "processed") => returned[r] = Processed

NoCallbackRaised(r) == \A j \in DOMAIN called[r] : called[r][j].out # "raise"

\* C9: in an AsyncOperation whose auth callbacks do not raise, callbacks are
\* invoked in declaration order; the first truthy answer ends the chain and is
\* stored as request.auth, with no error; when every callback answers falsy,
\* request.auth stays unassigned and the outcome is the returned response 401
\* {"detail": "Unauthorized"}, not an exception.
C9_AsyncAuthChain ==
    \A r \in Requests :
        (operation.mode = "async" /\ NoCallbackRaised(r)) =>
            LET c == called[r]
                n == Len(operation.auth_callbacks)
            IN  /\ \A j \in DOMAIN c : c[j].i = j
                /\ \A j \in DOMAIN c : j < Len(c) => c[j].out = Falsy
                /\ pc[r] = "auth" => /\ Len(c) < n
                                     /\ \A j \in DOMAIN c : c[j].out = Falsy
                /\ request[r].auth # None =>
                      /\ c # <<>>
                      /\ c[Len(c)].out = request[r].auth
                /\ (c # <<>> /\ c[Len(c)].out \in Identities) =>
                      /\ request[r].auth = c[Len(c)].out
                      /\ pc[r] # "auth"
                      /\ error[r] \in {NoResponse, CsrfFailed}
                /\ (pc[r] # "auth" /\ c # <<>> /\ c[Len(c)].out = Falsy) =>
                      /\ Len(c) = n
                      /\ request[r].auth = None
                      /\ error[r] = Unauthorized
                      /\ error[r].status = 401
                      /\ error[r].body = "detail: Unauthorized"
                      /\ exc[r] = NoExc
                      /\ Count(events[r], "on_exception") = 0
                      /\ pc[r] \in {"checked", "done"}
                      /\ pc[r] = "done" => returned[r] = Unauthorized

C9_Witness ==
    \E r \in Requests :
        /\ operation.mode = "async"
        /\ Len(operation.auth_callbacks) = 2
        /\ called[r] = <<[i |-> 1, out |-> "user"]>>
        /\ request[r].auth = "user"
        /\ pc[r] = "done"

----------------------------------------------------------------------------
(* ControllerBase: permission rules *)

\* What the rules of the permission layer answer.  "AllowAny" refuses nothing;
\* "Deny" refuses every request and the object "secret" and has no message
\* attribute; "DenyMsg" refuses every request and every object, with a message.
HasPermission(cls) == cls = "AllowAny"

HasObjectPermission(cls, obj) ==
    \/ cls = "AllowAny"
    \/ cls = "Deny" /\ obj # "secret"

\* getattr(permission, "message", None)
Message(cls) == IF cls = "DenyMsg" THEN "custom message" ELSE None

Allows(kind, cls, obj) ==
    IF kind = "has_permission" THEN HasPermission(cls) ELSE HasObjectPermission(cls, obj)

RuleEv(e, cls, i) == [ev |-> e, cls |-> cls, i |-> i]

Passed(log) == [log |-> log, raised |-> None, message |-> None]

\* permission_denied: raise PermissionDenied(message)
PermissionDenied(log, cls) ==
    [log |-> log, raised |-> "PermissionDenied", message |-> Message(cls)]

\* The loop of check_permissions / check_object_permissions over the generator
\* _get_permissions, from rule k on: a rule is instantiated when the loop asks
\* for it, evaluated when the context has a request, and the first refusal
\* raises.
RECURSIVE CheckFrom(_, _, _, _, _)
CheckFrom(ctx, kind, obj, k, log) ==
    IF k > Len(ctx.permission_classes) THEN Passed(log)
    ELSE LET cls == ctx.permission_classes[k]
             made == Append(log, RuleEv("init", cls, k))
         IN  IF ctx.request = None
             THEN CheckFrom(ctx, kind, obj, k + 1, made)
             ELSE LET asked == Append(made, RuleEv(kind, cls, k)) IN
                  IF ~Allows(kind, cls, obj)
                  THEN PermissionDenied(asked, cls)
                  ELSE CheckFrom(ctx, kind, obj, k + 1, asked)

\* The log of a loop that instantiates and evaluates every rule.
FullLog(rules, kind) ==
    [j \in 1..(2 * Len(rules)) |->
        IF j % 2 = 1
        THEN RuleEv("init", rules[(j + 1) \div 2], (j + 1) \div 2)
        ELSE RuleEv(kind, rules[j \div 2], j \div 2)]

\* The mutant: every rule is instantiated and evaluated, and the first refusal
\* is raised after the loop.
CheckRulesWithoutShortCircuit(ctx, kind, obj) ==
    IF ~ctx.built THEN Passed(<<>>)
    ELSE IF ctx.request = None THEN CheckFrom(ctx, kind, obj, 1, <<>>)
    ELSE LET rules == ctx.permission_classes
             refused == {i \in DOMAIN rules : ~Allows(kind, rules[i], obj)}
         IN  IF refused = {} THEN Passed(FullLog(rules, kind))
             ELSE PermissionDenied(FullLog(rules, kind),
                      rules[CHOOSE i \in refused : \A j \in refused : i <= j])

\* The mutant: the rules are evaluated whether the context has a request or not.
CheckRulesIgnoringRequest(ctx, kind, obj) ==
    IF ~ctx.built THEN Passed(<<>>)
    ELSE CheckFrom([ctx EXCEPT !.request = "r1"], kind, obj, 1, <<>>)

\* check_permissions (kind "has_permission") and check_object_permissions
\* (kind "has_object_permission"): no rule at all while the context is unset.
CheckRules(ctx, kind, obj) ==
    IF ~ctx.built THEN Passed(<<>>)
    ELSE CheckFrom(ctx, kind, obj, 1, <<>>)

----------------------------------------------------------------------------
(* ControllerBase: object lookup *)

\* The rows the ORM lookup can find, by primary key; key 3 matches nothing.
Keys == 1..3
Db == [pk \in 1..2 |-> IF pk = 1 THEN "document" ELSE "secret"]
Objects == {Db[pk] : pk \in DOMAIN Db}

Found(key) == key \in DOMAIN Db

\* The exception classes get_object_or_exception may be told to raise.
NotFoundExceptions == {"NotFound", "CustomNotFound"}

Result(op, key, raised, message, ret) ==
    [op |-> op, key |-> key, raised |-> raised, message |-> message, returned |-> ret]

\* shortcuts.get_object_or_exception: the object, or the configured exception.
\* shortcuts.get_object_or_none: the object, or None.
Lookup(key) == IF Found(key) THEN Db[key] ELSE None

\* The mutant: the object is returned without the object-level check.
GetObjectUnchecked(ctx, op, key, exception) ==
    IF Found(key)
    THEN [log |-> <<>>, out |-> Result(op, key, None, None, Lookup(key))]
    ELSE [log |-> <<>>,
          out |-> Result(op, key,
                         IF op = "get_object_or_exception" THEN exception ELSE None,
                         None, None)]

\* ControllerBase.get_object_or_exception and get_object_or_none: what the call
\* does (return or raise) and which rules it touched.
GetObject(ctx, op, key, exception) ==
    IF Found(key)
    THEN LET obj == Lookup(key)
             chk == CheckRules(ctx, "has_object_permission", obj)
         IN  [log |-> chk.log,
              out |-> IF chk.raised # None
                      THEN Result(op, key, chk.raised, chk.message, None)
                      ELSE Result(op, key, None, None, obj)]
    ELSE [log |-> <<>>,
          out |-> Result(op, key,
                         IF op = "get_object_or_exception" THEN exception ELSE None,
                         None, None)]

----------------------------------------------------------------------------
(* The ControllerBase helpers as actions *)

\* The mutant: the permissions argument is stored as it is.
PermissionClassesAsGiven(permissions) == permissions.rules

\* APIController.__init__: permissions or [AllowAny], permissions being an
\* Optional list.
PermissionClasses(permissions) ==
    IF Truthy(permissions) THEN permissions.rules ELSE <<"AllowAny">>

\* The handlers whose context is resolved: plain functions and controller
\* routes, with every route-level and controller-level permission list.
\* permissions is the argument the route's APIController was created with.
PermOperations ==
    { [mode |-> "sync", auth_callbacks |-> <<>>, csrf |-> FALSE, view |-> "plain",
       bound |-> TRUE, route_permissions |-> NoPermissions,
       permissions |-> NoPermissions, controller_permissions |-> <<>>] }
    \cup
    { [mode |-> "sync", auth_callbacks |-> <<>>, csrf |-> FALSE, view |-> "route",
       bound |-> TRUE, route_permissions |-> rp,
       permissions |-> cp, controller_permissions |-> PermissionClasses(cp)] :
        rp \in {NoPermissions} \cup {Declared(l) : l \in SeqUpTo(PermClasses, MaxPerms)},
        cp \in {NoPermissions} \cup {Declared(l) : l \in SeqUpTo(PermClasses, MaxPerms)} }

PermFrame ==
    UNCHANGED <<operation, pc, request, kw, error, values, cbIndex, called,
                temporal_response, context, result, exc, returned, events, regVars,
                authVars>>

\* The route function runs under its operation: a controller instance is made
\* for the request and its context is the one the operation built.
SetContext ==
    /\ controller' = [controller EXCEPT !.context =
            GetExecutionContext(operation, "r1", "temporal", EmptyDict)]
    /\ permLog' = <<>>
    /\ outcome' = NoOutcome
    /\ PermFrame

\* A context assigned without a request (RouteContext's request is optional).
SetContextWithoutRequest ==
    /\ controller' = [controller EXCEPT !.context =
            GetExecutionContext(operation, None, None, EmptyDict)]
    /\ permLog' = <<>>
    /\ outcome' = NoOutcome
    /\ PermFrame

CheckPermissions ==
    /\ LET chk == CheckRules(controller.context, "has_permission", None) IN
       /\ permLog' = chk.log
       /\ outcome' = Result("check_permissions", 0, chk.raised, chk.message, None)
    /\ UNCHANGED controller
    /\ PermFrame

CheckObjectPermissions ==
    /\ \E key \in DOMAIN Db :
          LET chk == CheckRules(controller.context, "has_object_permission", Db[key]) IN
          /\ permLog' = chk.log
          /\ outcome' = Result("check_object_permissions", key, chk.raised,
                               chk.message, None)
    /\ UNCHANGED controller
    /\ PermFrame

GetObjectOrException ==
    /\ \E key \in Keys, exception \in NotFoundExceptions :
          LET got == GetObject(controller.context, "get_object_or_exception",
                               key, exception) IN
          /\ permLog' = got.log
          /\ outcome' = got.out
    /\ UNCHANGED controller
    /\ PermFrame

GetObjectOrNone ==
    /\ \E key \in Keys :
          LET got == GetObject(controller.context, "get_object_or_none", key, None) IN
          /\ permLog' = got.log
          /\ outcome' = got.out
    /\ UNCHANGED controller
    /\ PermFrame

PermInit ==
    /\ operation \in PermOperations
    /\ controller = NoController
    /\ permLog = <<>>
    /\ outcome = NoOutcome
    /\ kw = [r \in Requests |-> EmptyDict]
    /\ pc = [r \in Requests |-> "start"]
    /\ request = [r \in Requests |-> NoRequestState]
    /\ error = [r \in Requests |-> NoResponse]
    /\ values = [r \in Requests |-> EmptyDict]
    /\ cbIndex = [r \in Requests |-> 1]
    /\ called = [r \in Requests |-> <<>>]
    /\ temporal_response = [r \in Requests |-> None]
    /\ context = [r \in Requests |-> NoContext]
    /\ result = [r \in Requests |-> None]
    /\ exc = [r \in Requests |-> NoExc]
    /\ returned = [r \in Requests |-> NoResponse]
    /\ events = [r \in Requests |-> <<>>]
    /\ classes = <<>>
    /\ descriptors = <<>>
    /\ routes = <<>>
    /\ routeOwner = <<>>
    /\ registry = {}
    /\ mounted = <<>>
    /\ accessed = <<>>
    /\ path_view = <<>>
    /\ configured = Unconfigured

PermNext ==
    \/ SetContext
    \/ SetContextWithoutRequest
    \/ CheckPermissions
    \/ CheckObjectPermissions
    \/ GetObjectOrException
    \/ GetObjectOrNone

SpecPerm == PermInit /\ [][PermNext]_vars

----------------------------------------------------------------------------
(* Properties of the ControllerBase helpers, checked under SpecPerm *)

\* The context the helpers can enforce rules with: set, and holding a request.
Enforcing(ctx) == ctx.built /\ ctx.request # None

FirstRefusal(rules, kind, obj) ==
    LET refused == {i \in DOMAIN rules : ~Allows(kind, rules[i], obj)} IN
    IF refused = {} THEN 0 ELSE CHOOSE i \in refused : \A j \in refused : i <= j

\* C6 as stated: the context's rule list is the route's own list whenever the
\* route declares one (an empty list included), the controller's only when the
\* route declares none, and empty for a handler that is no controller route.
C6_RouteListWheneverDeclared ==
    controller.context.built =>
        controller.context.permission_classes =
            IF operation.view # "route" THEN <<>>
            ELSE IF operation.route_permissions.declared
                 THEN operation.route_permissions.rules
                 ELSE operation.controller_permissions

\* C6 amended: the context's rule list is the route's own list whenever the
\* route declares a non-empty one, the controller's when the route declares
\* none or an empty one, and empty for a handler that is no controller route.
C6_RouteListWhenNonEmpty ==
    controller.context.built =>
        controller.context.permission_classes =
            IF operation.view # "route" THEN <<>>
            ELSE IF /\ operation.route_permissions.declared
                    /\ Len(operation.route_permissions.rules) > 0
                 THEN operation.route_permissions.rules
                 ELSE operation.controller_permissions

C6_Witness ==
    /\ controller.context.built
    /\ operation.view = "route"
    /\ operation.route_permissions = Declared(<<"Deny", "AllowAny">>)
    /\ operation.controller_permissions = <<"DenyMsg">>
    /\ controller.context.permission_classes = <<"Deny", "AllowAny">>

\* C7: with a request in the context, when rule i refuses has_permission and
\* the rules before it allow, check_permissions raises PermissionDenied with
\* rule i's message (none when the rule has none), the rules up to i are
\* instantiated and evaluated in list order and no later rule is instantiated
\* or evaluated; when every rule allows, check_permissions returns.
C7_FirstRefusalRaises ==
    (outcome.op = "check_permissions" /\ Enforcing(controller.context)) =>
        LET rules == controller.context.permission_classes
            i == FirstRefusal(rules, "has_permission", None)
        IN  IF i = 0
            THEN /\ outcome.raised = None
                 /\ permLog = FullLog(rules, "has_permission")
            ELSE /\ outcome.raised = "PermissionDenied"
                 /\ outcome.message = Message(rules[i])
                 /\ permLog = FullLog(SubSeq(rules, 1, i), "has_permission")

C7_Witness ==
    /\ outcome.op = "check_permissions"
    /\ controller.context.request # None
    /\ controller.context.permission_classes = <<"AllowAny", "DenyMsg">>
    /\ outcome.raised = "PermissionDenied"
    /\ outcome.message = "custom message"

----------------------------------------------------------------------------
(* Paths: strings as sequences of characters *)

\* ninja.utils.normalize_path: every run of slashes becomes one slash.
RECURSIVE NormalizePath(_)
NormalizePath(path) ==
    IF Len(path) < 2 THEN path
    ELSE IF path[1] = "/" /\ path[2] = "/" THEN NormalizePath(Tail(path))
    ELSE <<path[1]>> \o NormalizePath(Tail(path))

\* "/".join([i for i in (prefix, path) if i])
JoinPath(prefix, path) ==
    IF prefix = <<>> THEN path
    ELSE IF path = <<>> THEN prefix
    ELSE prefix \o <<"/">> \o path

\* re.search(_PATH_PARAMETER_COMPONENT_RE, prefix): a "{", one or more
\* characters other than ">", a "}".
HasRouteParam(prefix) ==
    \E i, j \in DOMAIN prefix :
        /\ i + 1 < j
        /\ prefix[i] = "{"
        /\ prefix[j] = "}"
        /\ \A k \in (i + 1)..(j - 1) : prefix[k] # ">"

\* The prefixes a controller is declared with and the paths a route declares.
Prefixes == {<<>>, <<"/", "p">>, <<"/", "{", "x", "}">>}
RoutePaths == {<<"a">>, <<"/", "a">>, <<"/", "b">>}

----------------------------------------------------------------------------
(* APIController: the class decorator *)

\* A tags parameter: None, one string, or a list of strings.  A string is a
\* sequence of name tokens, the empty sequence being "".
NoTags == [kind |-> "None", items |-> <<>>]
TagString(s) == [kind |-> "str", items |-> <<s>>]
TagList(l) == [kind |-> "list", items |-> l]
TagsTruthy(t) ==
    \/ t.kind = "str" /\ t.items[1] # <<>>
    \/ t.kind = "list" /\ t.items # <<>>

\* The tags setter: a non-empty string is wrapped into a list, anything else
\* is stored as given.
TagsSetter(value) ==
    IF TagsTruthy(value) /\ value.kind = "str" THEN TagList(value.items) ELSE value

\* str.lower() on a class name, token by token.
Lower(t) ==
    CASE t = "Base" -> "base"
      [] t = "Child" -> "child"
      [] t = "Plain" -> "plain"
      [] t = "User" -> "user"
      [] t = "Controller" -> "controller"
      [] OTHER -> t
StrLower(s) == [i \in DOMAIN s |-> Lower(s[i])]

\* str.replace(old, ""): every occurrence of the token is removed.
ReplaceWithEmpty(s, old) == LET Keep(t) == t # old IN SelectSeq(s, Keep)

\* The default tag of __call__: cls.__name__.lower().replace("controller", "").
DefaultTag(name) == ReplaceWithEmpty(StrLower(name), "controller")

\* The tags of a descriptor after __call__ on a class of that name.
TagsAfterCall(tags, name) ==
    IF ~TagsTruthy(tags) THEN TagsSetter(TagList(<<DefaultTag(name)>>)) ELSE tags

\* An operation id: None, an explicit string, or the generated one.  The
\* random token of uuid4 is one opaque value: nothing here compares two tokens.
NoOperationId == [token |-> None, name |-> None]
ExplicitOperationId(n) == [token |-> None, name |-> n]
Uuid4 == "uuid4"

\* RouteParameter: the parameters a route declares.
RouteParameter(path, operation_id, auth) ==
    [path |-> path, operation_id |-> operation_id, auth |-> auth]

\* Route functions (RouteFunction objects) and the method name each is bound
\* to; two of them share a name, so that a subclass can override a route.
RouteFns == {"f1", "f2", "f3"}
MethodName(f) == IF f = "f2" THEN "get" ELSE "list"

\* f"{str(uuid.uuid4())[:8]}_controller_{view_func.__name__}"
GeneratedOperationId(f) == [token |-> Uuid4, name |-> MethodName(f)]

Descriptors == {"d1", "d2"}

\* Class objects are numbered; classes[c] holds the class's name, its base
\* (0: none besides ControllerBase / object), whether it derives from
\* ControllerBase, the route functions of its own __dict__ in definition
\* order, and its own _api_controller attribute.
Class(name, base, derives, own) ==
    [name |-> name, base |-> base, derives |-> derives, routes |-> own,
     api_controller |-> None]

\* inspect.getmro(cls) without ControllerBase, ABC and object.
RECURSIVE Mro(_, _)
Mro(cs, c) == IF c = 0 THEN <<>> ELSE <<c>> \o Mro(cs, cs[c].base)

\* get_route_functions over the classes of a method resolution order.
RECURSIVE RouteFunctionsOf(_, _)
RouteFunctionsOf(cs, mro) ==
    IF mro = <<>> THEN <<>>
    ELSE cs[Head(mro)].routes \o RouteFunctionsOf(cs, Tail(mro))

\* is_async(view_func): the route functions declared with `async def`.
IsAsync(f) == f = "f3"

\* The mutant: every handler gets a synchronous Operation.
GetOperationClassAlwaysSync(f) == "Operation"

\* PathView.get_operation_class: the Operation subtype for a handler.
GetOperationClass(f) == IF IsAsync(f) THEN "AsyncOperation" ELSE "Operation"

\* The mutant: the group's flag follows the operation added last.
AddOperationLastWins(pathView, op) ==
    [operations |-> Append(pathView.operations,
                        [view_func |-> op.view_func, path |-> op.path,
                         auth |-> op.auth, operation_id |-> op.operation_id,
                         operation_class |-> GetOperationClass(op.view_func)]),
     is_async |-> IsAsync(op.view_func)]

\* PathView.add_operation: get_operation_class flips is_async for a coroutine
\* handler, the operation is built and appended to the group.
AddOperation(pathView, op) ==
    [operations |-> Append(pathView.operations,
                        [view_func |-> op.view_func, path |-> op.path,
                         auth |-> op.auth, operation_id |-> op.operation_id,
                         operation_class |-> GetOperationClass(op.view_func)]),
     is_async |-> IF IsAsync(op.view_func) THEN TRUE ELSE pathView.is_async]

\* PathView(): no operation, synchronous dispatch.
NewPathView == [operations |-> <<>>, is_async |-> FALSE]

\* The path an operation is stored under: the declared path, or with a
\* parameterized prefix the normalized join of prefix and path.
OperationPath(desc, path) ==
    IF desc.prefix_has_route_param
    THEN NormalizePath(JoinPath(desc.prefix, path))
    ELSE path

\* The mutant: a new PathView replaces the group a path already has.
AddApiOperationNewGroup(desc, f, route) ==
    LET p == OperationPath(desc, route.path)
        op == [view_func |-> f, path |-> p,
               auth |-> AuthOrControllerAuth(route.auth, desc.auth),
               operation_id |-> route.operation_id]
    IN  [desc EXCEPT !.path_operations =
            [q \in (DOMAIN @) \cup {p} |->
                IF q = p THEN AddOperation(NewPathView, op) ELSE @[q]]]

\* APIController.add_api_operation for route function f with the parameters
\* of route.
AddApiOperation(desc, f, route) ==
    LET p == OperationPath(desc, route.path)
        op == [view_func |-> f, path |-> p,
               auth |-> AuthOrControllerAuth(route.auth, desc.auth),
               operation_id |-> route.operation_id]
    IN  [desc EXCEPT !.path_operations =
            [q \in (DOMAIN @) \cup {p} |->
                IF q = p
                THEN AddOperation(IF p \in DOMAIN @ THEN @[p] ELSE NewPathView, op)
                ELSE @[q]]]

\* The route parameters after add_operation_from_route_function: the
\* operation id is overwritten with a generated one.
RouteParamsAfterRegistration(f, route) ==
    [route EXCEPT !.operation_id = GeneratedOperationId(f)]

\* APIController.add_operation_from_route_function
AddOperationFromRouteFunction(desc, f, route) ==
    AddApiOperation(desc, f, RouteParamsAfterRegistration(f, route))

\* compute_api_route_function over the whole method resolution order: every
\* route function found is registered, in order.
RECURSIVE ComputeApiRouteFunctions(_, _, _)
ComputeApiRouteFunctions(desc, fns, rs) ==
    IF fns = <<>> THEN desc
    ELSE ComputeApiRouteFunctions(
             AddOperationFromRouteFunction(desc, Head(fns), rs[Head(fns)]),
             Tail(fns), rs)

\* APIController.__init__
APIControllerInit(prefix, auth, tags) ==
    [prefix |-> prefix, prefix_has_route_param |-> HasRouteParam(prefix),
     auth |-> auth, tags |-> TagsSetter(tags),
     controller_class |-> 0, path_operations |-> <<>>, applied |-> <<>>]

\* APIController(prefix): auth and tags at their defaults.
NewDescriptor(prefix) == APIControllerInit(prefix, NOT_SET, NoTags)

RegFrame == UNCHANGED <<runVars, permVars, authVars>>

\* Nothing mounted yet, no get_api_controller call yet.
NoMount == [d |-> None, prefix |-> <<>>, urls |-> {}]
NoAccess == [cls |-> 0, returned |-> None, raised |-> None]

Decorations ==
    Len(descriptors["d1"].applied) + Len(descriptors["d2"].applied)

\* APIController.__call__(cls): d is applied to class c.  A class that does not
\* derive from ControllerBase is replaced by a new type deriving from
\* ControllerBase and from it; the route functions of the whole method
\* resolution order are bound to d and registered; the class is added to the
\* registry.
Call(d, c) ==
    /\ Decorations < MaxDecorations
    /\ LET wrap == ~classes[c].derives
           cls == IF wrap THEN Len(classes) + 1 ELSE c
           cs == IF wrap
                 THEN Append(classes,
                        [Class(classes[c].name, c, TRUE, <<>>)
                            EXCEPT !.api_controller = d])
                 ELSE [classes EXCEPT ![c].api_controller = d]
           fns == RouteFunctionsOf(cs, Mro(cs, cls))
           bound == [descriptors[d] EXCEPT
                        !.tags = TagsAfterCall(@, classes[c].name),
                        !.controller_class = cls,
                        !.applied = Append(@, cls)]
       IN  /\ classes' = cs
           /\ routeOwner' = [f \in RouteFns |->
                                IF \E i \in DOMAIN fns : fns[i] = f
                                THEN d ELSE routeOwner[f]]
           /\ descriptors' = [descriptors EXCEPT ![d] =
                ComputeApiRouteFunctions(bound, fns, routes)]
           /\ routes' = [f \in RouteFns |->
                            IF \E i \in DOMAIN fns : fns[i] = f
                            THEN RouteParamsAfterRegistration(f, routes[f])
                            ELSE routes[f]]
           /\ registry' = registry \cup {cls}
    /\ UNCHANGED <<mounted, accessed, path_view>>
    /\ RegFrame

AllFns == <<"f1", "f2", "f3">>

\* The route functions a class defines, in definition order.
OwnRoutes(owner, c) ==
    LET Mine(f) == owner[f] = c IN SelectSeq(AllFns, Mine)

\* Three classes: a controller, a subclass of it, and a class that does not
\* derive from ControllerBase.  A class has one attribute per method name.
RegInit ==
    /\ \E owner \in [RouteFns -> 1..3] :
          /\ \A f, g \in RouteFns :
                (f # g /\ MethodName(f) = MethodName(g)) => owner[f] # owner[g]
          /\ classes = << Class(<<"Base">>, 0, TRUE, OwnRoutes(owner, 1)),
                          Class(<<"Child">>, 1, TRUE, OwnRoutes(owner, 2)),
                          Class(<<"Plain">>, 0, FALSE, OwnRoutes(owner, 3)) >>
    /\ \E paths \in [RouteFns -> RoutePaths] :
          routes = [f \in RouteFns |->
                       RouteParameter(paths[f], NoOperationId, NOT_SET)]
    /\ \E prefix \in Prefixes :
          descriptors = [d \in Descriptors |-> NewDescriptor(prefix)]
    /\ routeOwner = [f \in RouteFns |-> None]
    /\ registry = {}
    /\ mounted = NoMount
    /\ accessed = NoAccess
    /\ path_view = NewPathView
    /\ configured = Unconfigured
    /\ operation = CHOOSE op \in PermOperations : op.view = "plain"
    /\ controller = NoController
    /\ permLog = <<>>
    /\ outcome = NoOutcome
    /\ kw = [r \in Requests |-> EmptyDict]
    /\ pc = [r \in Requests |-> "start"]
    /\ request = [r \in Requests |-> NoRequestState]
    /\ error = [r \in Requests |-> NoResponse]
    /\ values = [r \in Requests |-> EmptyDict]
    /\ cbIndex = [r \in Requests |-> 1]
    /\ called = [r \in Requests |-> <<>>]
    /\ temporal_response = [r \in Requests |-> None]
    /\ context = [r \in Requests |-> NoContext]
    /\ result = [r \in Requests |-> None]
    /\ exc = [r \in Requests |-> NoExc]
    /\ returned = [r \in Requests |-> NoResponse]
    /\ events = [r \in Requests |-> <<>>]

RegNext == \E d \in Descriptors, c \in DOMAIN classes : Call(d, c)

SpecReg == RegInit /\ [][RegNext]_vars

----------------------------------------------------------------------------
(* Properties of the decorator, checked under SpecReg *)

\* The route methods the class hierarchy of c presents: those of every class
\* of the method resolution order, an overridden one included.
RouteMethods(c) == RouteFunctionsOf(classes, Mro(classes, c))

OperationSlots(desc) ==
    UNION { {<<p, i>> : i \in DOMAIN desc.path_operations[p].operations} :
                p \in DOMAIN desc.path_operations }

InGroup(desc, p, f) ==
    \E i \in DOMAIN desc.path_operations[p].operations :
        desc.path_operations[p].operations[i].view_func = f

SameGroup(desc, f, g) ==
    \E p \in DOMAIN desc.path_operations : InGroup(desc, p, f) /\ InGroup(desc, p, g)

DecoratedOnce(d) == Len(descriptors[d].applied) = 1

Range(seq) == {seq[i] : i \in DOMAIN seq}

\* C10 as stated: decorating a class with N route methods once leaves N
\* operations in at most N path groups, two route methods sharing a group iff
\* they declare the same path.
C10_GroupedByDeclaredPath ==
    \A d \in Descriptors :
        DecoratedOnce(d) =>
            LET desc == descriptors[d]
                fns == RouteMethods(desc.applied[1])
            IN  /\ Cardinality(OperationSlots(desc)) = Len(fns)
                /\ Cardinality(DOMAIN desc.path_operations) <= Len(fns)
                /\ \A f, g \in Range(fns) :
                      SameGroup(desc, f, g) <=> routes[f].path = routes[g].path

\* C10 amended: decorating a class with N route methods once leaves N
\* operations, one per route method, in at most N path groups, two route
\* methods sharing a group iff their operation paths are equal: the declared
\* paths when the prefix has no path parameter, the slash-normalized joins of
\* prefix and declared path when it has one.
C10_GroupedByOperationPath ==
    \A d \in Descriptors :
        DecoratedOnce(d) =>
            LET desc == descriptors[d]
                fns == RouteMethods(desc.applied[1])
                Stored(f) ==
                    IF HasRouteParam(desc.prefix)
                    THEN NormalizePath(JoinPath(desc.prefix, routes[f].path))
                    ELSE routes[f].path
            IN  /\ Cardinality(OperationSlots(desc)) = Len(fns)
                /\ Cardinality(DOMAIN desc.path_operations) <= Len(fns)
                /\ \A f \in Range(fns) :
                      Cardinality({s \in OperationSlots(desc) :
                          desc.path_operations[s[1]].operations[s[2]].view_func = f}) = 1
                /\ \A f, g \in Range(fns) :
                      SameGroup(desc, f, g) <=> Stored(f) = Stored(g)

C10_Witness ==
    \E d \in Descriptors :
        /\ DecoratedOnce(d)
        /\ descriptors[d].prefix_has_route_param
        /\ Len(RouteMethods(descriptors[d].applied[1])) = 3
        /\ Cardinality(DOMAIN descriptors[d].path_operations) = 2
        /\ \E f, g \in RouteFns :
              /\ routes[f].path # routes[g].path
              /\ SameGroup(descriptors[d], f, g)

\* C11 as stated: applying a descriptor to a class it was already applied to
\* leaves its path groups and the registry as they were after the first
\* application.
C11_RedecorationIsIdempotent ==
    [][\A d \in Descriptors, c \in DOMAIN classes :
          (descriptors[d].applied = <<c>> /\ Call(d, c)) =>
              /\ descriptors'[d].path_operations = descriptors[d].path_operations
              /\ registry' = registry]_vars


\* C12 as stated: a descriptor that was applied to classes is bound to one
\* class and every operation of its path groups comes from a route method of
\* that class's hierarchy.
C12_OperationsOfTheBoundClassOnly ==
    \A d \in Descriptors :
        descriptors[d].applied # <<>> =>
            LET desc == descriptors[d] IN
            /\ desc.controller_class \in DOMAIN classes
            /\ \A s \in OperationSlots(desc) :
                  desc.path_operations[s[1]].operations[s[2]].view_func
                      \in Range(RouteMethods(desc.controller_class))

\* C13 as stated: the api_controller a route function received at its first
\* registration is never overwritten by a later decoration.
C13_BackReferenceSetOnce ==
    [][\A f \in RouteFns :
          routeOwner[f] # None => routeOwner'[f] = routeOwner[f]]_vars


----------------------------------------------------------------------------
(* APIController.build_routers and APIController.urls_paths *)

MaxOperations == 2

\* path.replace("{", "<").replace("}", ">")
ReplaceBraces(path) ==
    [i \in DOMAIN path |->
        IF path[i] = "{" THEN "<" ELSE IF path[i] = "}" THEN ">" ELSE path[i]]

\* route.lstrip("/")
RECURSIVE LStrip(_)
LStrip(path) ==
    IF path # <<>> /\ Head(path) = "/" THEN LStrip(Tail(path)) ELSE path

\* The mutant: doubled slashes are left in the route.
UrlRouteNotNormalized(prefix, path) ==
    LStrip(JoinPath(prefix, ReplaceBraces(path)))

\* The route urls_paths hands to django_path for a stored path.
UrlRoute(prefix, path) ==
    LStrip(NormalizePath(JoinPath(prefix, ReplaceBraces(path))))

\* urls_paths(prefix): one URL pattern per operation of every path group.
UrlsPaths(desc, prefix) ==
    { [route |-> UrlRoute(prefix, s[1]), path |-> s[1],
       view_func |-> desc.path_operations[s[1]].operations[s[2]].view_func] :
          s \in OperationSlots(desc) }

\* The mutant: the prefix is returned although the operation paths carry it.
BuildRoutersKeepPrefix(desc) == desc.prefix

\* build_routers: the mount prefix of the one (prefix, self) pair returned.
BuildRouters(desc) ==
    IF desc.prefix_has_route_param THEN <<>> ELSE desc.prefix

\* The API mounts a decorated controller: build_routers gives the mount prefix
\* and urls_paths is asked for the URL patterns under it.
Mount(d) ==
    /\ descriptors[d].applied # <<>>
    /\ LET prefix == BuildRouters(descriptors[d]) IN
       mounted' = [d |-> d, prefix |-> prefix,
                   urls |-> UrlsPaths(descriptors[d], prefix)]
    /\ UNCHANGED <<classes, descriptors, routes, routeOwner, registry,
                   accessed, path_view>>
    /\ RegFrame

\* One class layout, every declared path and every prefix.
MountInit ==
    /\ classes = << Class(<<"Base">>, 0, TRUE, <<"f1", "f2">>),
                    Class(<<"Child">>, 1, TRUE, <<"f3">>),
                    Class(<<"Plain">>, 0, FALSE, <<>>) >>
    /\ \E paths \in [RouteFns -> RoutePaths] :
          routes = [f \in RouteFns |->
                       RouteParameter(paths[f], NoOperationId, NOT_SET)]
    /\ \E prefix \in Prefixes :
          descriptors = [d \in Descriptors |-> NewDescriptor(prefix)]
    /\ routeOwner = [f \in RouteFns |-> None]
    /\ registry = {}
    /\ mounted = NoMount
    /\ accessed = NoAccess
    /\ path_view = NewPathView
    /\ configured = Unconfigured
    /\ operation = CHOOSE op \in PermOperations : op.view = "plain"
    /\ controller = NoController
    /\ permLog = <<>>
    /\ outcome = NoOutcome
    /\ kw = [r \in Requests |-> EmptyDict]
    /\ pc = [r \in Requests |-> "start"]
    /\ request = [r \in Requests |-> NoRequestState]
    /\ error = [r \in Requests |-> NoResponse]
    /\ values = [r \in Requests |-> EmptyDict]
    /\ cbIndex = [r \in Requests |-> 1]
    /\ called = [r \in Requests |-> <<>>]
    /\ temporal_response = [r \in Requests |-> None]
    /\ context = [r \in Requests |-> NoContext]
    /\ result = [r \in Requests |-> None]
    /\ exc = [r \in Requests |-> NoExc]
    /\ returned = [r \in Requests |-> NoResponse]
    /\ events = [r \in Requests |-> <<>>]

MountNext ==
    \/ \E d \in Descriptors, c \in DOMAIN classes : Call(d, c)
    \/ \E d \in Descriptors : Mount(d)

SpecMount == MountInit /\ [][MountNext]_vars

\* C14: the prefix reaches an operation's URL exactly once.  With a path
\* parameter in the prefix every stored operation path is the normalized join
\* of prefix and route path and build_routers returns the empty prefix;
\* without one every stored path is the route path alone and build_routers
\* returns the prefix; either way the URL pattern emitted under the mount
\* prefix is the one of prefix joined once with the route path.
C14_PrefixAppliedExactlyOnce ==
    \A d \in Descriptors :
        LET desc == descriptors[d]
            param == HasRouteParam(desc.prefix)
        IN  /\ \A s \in OperationSlots(desc) :
                  LET op == desc.path_operations[s[1]].operations[s[2]]
                      declared == routes[op.view_func].path
                  IN  /\ op.path = s[1]
                      /\ op.path = IF param
                                   THEN NormalizePath(JoinPath(desc.prefix, declared))
                                   ELSE declared
            /\ mounted.d = d =>
                  /\ mounted.prefix = IF param THEN <<>> ELSE desc.prefix
                  /\ \A u \in mounted.urls :
                        u.route = LStrip(NormalizePath(ReplaceBraces(
                                    JoinPath(desc.prefix, routes[u.view_func].path))))

C14_Witness ==
    /\ mounted.d = "d1"
    /\ descriptors["d1"].prefix = <<"/", "{", "x", "}">>
    /\ mounted.prefix = <<>>
    /\ \E u \in mounted.urls :
          /\ routes[u.view_func].path = <<"a">>
          /\ u.path = <<"/", "{", "x", "}", "/", "a">>
          /\ u.route = <<"<", "x", ">", "/", "a">>


----------------------------------------------------------------------------
(* urls_paths over prefixes and paths with every placement of slashes *)

ConcretePrefixes ==
    {<<>>, <<"/">>, <<"p">>, <<"/", "p">>, <<"p", "/">>, <<"/", "p", "/">>}

UrlPaths ==
    {<<>>, <<"/">>, <<"a">>, <<"/", "a">>, <<"a", "/">>, <<"/", "a", "/">>,
     <<"{", "i", "}">>, <<"/", "/", "a">>}

OperationCount ==
    Cardinality(OperationSlots(descriptors["d1"]))
        + Cardinality(OperationSlots(descriptors["d2"]))

\* add_api_operation called on a descriptor before the API mounts it.
AddApiOperationStep(d, f, path) ==
    /\ mounted = NoMount
    /\ OperationCount < MaxOperations
    /\ descriptors' = [descriptors EXCEPT ![d] = AddApiOperation(@, f, RouteParameter(path, NoOperationId, NOT_SET))]
    /\ UNCHANGED <<classes, routes, routeOwner, registry, mounted, accessed,
                   path_view>>
    /\ RegFrame

\* Descriptors with a concrete prefix, applied to a controller class that
\* declares no route of its own.
UrlInit ==
    /\ classes = << [Class(<<"Base">>, 0, TRUE, <<>>) EXCEPT !.api_controller = "d1"],
                    [Class(<<"Child">>, 0, TRUE, <<>>) EXCEPT !.api_controller = "d2"] >>
    /\ routes = [f \in RouteFns |-> RouteParameter(<<>>, NoOperationId, NOT_SET)]
    /\ \E prefix \in ConcretePrefixes :
          descriptors =
              [d \in Descriptors |->
                  [NewDescriptor(prefix) EXCEPT
                      !.controller_class = IF d = "d1" THEN 1 ELSE 2,
                      !.applied = <<IF d = "d1" THEN 1 ELSE 2>>]]
    /\ routeOwner = [f \in RouteFns |-> None]
    /\ registry = {1, 2}
    /\ mounted = NoMount
    /\ accessed = NoAccess
    /\ path_view = NewPathView
    /\ configured = Unconfigured
    /\ operation = CHOOSE op \in PermOperations : op.view = "plain"
    /\ controller = NoController
    /\ permLog = <<>>
    /\ outcome = NoOutcome
    /\ kw = [r \in Requests |-> EmptyDict]
    /\ pc = [r \in Requests |-> "start"]
    /\ request = [r \in Requests |-> NoRequestState]
    /\ error = [r \in Requests |-> NoResponse]
    /\ values = [r \in Requests |-> EmptyDict]
    /\ cbIndex = [r \in Requests |-> 1]
    /\ called = [r \in Requests |-> <<>>]
    /\ temporal_response = [r \in Requests |-> None]
    /\ context = [r \in Requests |-> NoContext]
    /\ result = [r \in Requests |-> None]
    /\ exc = [r \in Requests |-> NoExc]
    /\ returned = [r \in Requests |-> NoResponse]
    /\ events = [r \in Requests |-> <<>>]

UrlNext ==
    \/ \E d \in Descriptors, path \in UrlPaths : AddApiOperationStep(d, "f1", path)
    \/ \E d \in Descriptors : Mount(d)

SpecUrl == UrlInit /\ [][UrlNext]_vars

RECURSIVE RStrip(_)
RStrip(path) ==
    IF path # <<>> /\ path[Len(path)] = "/"
    THEN RStrip(SubSeq(path, 1, Len(path) - 1)) ELSE path

Strip(path) == LStrip(RStrip(path))

EndsWithSlash(path) == path # <<>> /\ path[Len(path)] = "/"

NoDoubledSlash(route) ==
    \A i \in 1..(Len(route) - 1) : ~(route[i] = "/" /\ route[i + 1] = "/")

\* What is common to every way of writing the slashes around P and R.
CanonicalJoin(P, R) == ReplaceBraces(NormalizePath(JoinPath(Strip(P), Strip(R))))

WellFormedRoute(route) ==
    /\ NoDoubledSlash(route)
    /\ route = <<>> \/ Head(route) # "/"
    /\ \A i \in DOMAIN route : route[i] \notin {"{", "}"}

\* C15 as stated: the route emitted for a concrete prefix P and a path R is the
\* normalized join of P and R, without doubled or leading slash, braces
\* replaced, and the same whatever leading or trailing slashes P and R carry.
C15_RouteIgnoresOuterSlashes ==
    \A u \in mounted.urls :
        /\ WellFormedRoute(u.route)
        /\ u.route = CanonicalJoin(mounted.prefix, u.path)

\* C15 amended: the route emitted for a concrete prefix P and a path R is the
\* normalized join of P and R, without doubled or leading slash, braces
\* replaced; it is the same whatever leading slashes P carries and whatever
\* slashes sit between P and R, and it keeps, as one trailing slash, the
\* trailing slashes of R (of P when R is empty) whenever the join is not empty.
C15_RouteKeepsTrailingSlash ==
    \A u \in mounted.urls :
        LET P == mounted.prefix
            R == u.path
            core == CanonicalJoin(P, R)
            trailing == IF R # <<>> THEN EndsWithSlash(R) ELSE EndsWithSlash(P)
        IN  /\ WellFormedRoute(u.route)
            /\ u.route = IF core # <<>> /\ trailing THEN core \o <<"/">> ELSE core

C15_Witness ==
    /\ mounted.prefix = <<"/", "p", "/">>
    /\ \E u \in mounted.urls : u.path = <<"/", "/", "a">> /\ u.route = <<"p", "/", "a">>
    /\ \E u \in mounted.urls : u.path = <<"a", "/">> /\ u.route = <<"p", "/", "a", "/">>


----------------------------------------------------------------------------
(* PathView.add_operation on one path group *)

AddOperationStep(f, path) ==
    /\ Len(path_view.operations) < MaxOperations
    /\ path_view' = AddOperation(path_view, [view_func |-> f, path |-> path, auth |-> NOT_SET,
                                         operation_id |-> NoOperationId])
    /\ UNCHANGED <<classes, descriptors, routes, routeOwner, registry, mounted,
                   accessed>>
    /\ RegFrame

ViewInit ==
    /\ path_view = NewPathView
    /\ configured = Unconfigured
    /\ classes = <<>>
    /\ descriptors = <<>>
    /\ routes = <<>>
    /\ routeOwner = <<>>
    /\ registry = {}
    /\ mounted = NoMount
    /\ accessed = NoAccess
    /\ operation = CHOOSE op \in PermOperations : op.view = "plain"
    /\ controller = NoController
    /\ permLog = <<>>
    /\ outcome = NoOutcome
    /\ kw = [r \in Requests |-> EmptyDict]
    /\ pc = [r \in Requests |-> "start"]
    /\ request = [r \in Requests |-> NoRequestState]
    /\ error = [r \in Requests |-> NoResponse]
    /\ values = [r \in Requests |-> EmptyDict]
    /\ cbIndex = [r \in Requests |-> 1]
    /\ called = [r \in Requests |-> <<>>]
    /\ temporal_response = [r \in Requests |-> None]
    /\ context = [r \in Requests |-> NoContext]
    /\ result = [r \in Requests |-> None]
    /\ exc = [r \in Requests |-> NoExc]
    /\ returned = [r \in Requests |-> NoResponse]
    /\ events = [r \in Requests |-> <<>>]

ViewNext == \E f \in RouteFns, path \in UrlPaths : AddOperationStep(f, path)

SpecView == ViewInit /\ [][ViewNext]_vars

\* C16: after any sequence of add_operation calls the group's is_async flag is
\* true iff some added operation has a coroutine handler, and once true it
\* stays true whatever is added afterwards.
C16_StickyUnion ==
    /\ [](path_view.is_async <=>
            \E i \in DOMAIN path_view.operations :
                IsAsync(path_view.operations[i].view_func))
    /\ [][path_view.is_async => path_view'.is_async]_vars

C16_Witness ==
    /\ path_view.is_async
    /\ Len(path_view.operations) = 2
    /\ IsAsync(path_view.operations[1].view_func)
    /\ ~IsAsync(path_view.operations[2].view_func)

\* C17 as stated: all operations of a group are of one execution mode, the one
\* of the group's dispatch flag.
C17_OneModePerGroup ==
    \A i \in DOMAIN path_view.operations :
        path_view.operations[i].operation_class =
            IF path_view.is_async THEN "AsyncOperation" ELSE "Operation"

\* C17 amended: every operation of a group is of the type of its own handler
\* (AsyncOperation for a coroutine handler, Operation otherwise), and the
\* group has one dispatch flag for all of them, asynchronous iff the group
\* holds an AsyncOperation; a group given both kinds of handler holds both
\* operation types under the asynchronous flag.
C17_TypePerHandlerFlagPerGroup ==
    /\ \A i \in DOMAIN path_view.operations :
          path_view.operations[i].operation_class =
              IF IsAsync(path_view.operations[i].view_func)
              THEN "AsyncOperation" ELSE "Operation"
    /\ path_view.is_async <=>
          \E i \in DOMAIN path_view.operations :
              path_view.operations[i].operation_class = "AsyncOperation"

C17_Witness ==
    /\ path_view.is_async
    /\ Len(path_view.operations) = 2
    /\ path_view.operations[1].operation_class = "Operation"
    /\ path_view.operations[2].operation_class = "AsyncOperation"


----------------------------------------------------------------------------
(* Concurrent runs on one Operation *)

\* Two requests served by the same Operation at the same time: threads of the
\* synchronous path, coroutines of the asynchronous path.  A step of run is an
\* action; every interleaving of the steps of the two runs is a behaviour.
ConcRequests == {"r1", "r2"}

ConcOperations ==
    { [mode |-> m, auth_callbacks |-> <<FALSE>>, csrf |-> FALSE, view |-> "route",
       bound |-> TRUE, route_permissions |-> NoPermissions,
       controller_permissions |-> <<"AllowAny">>] : m \in {"sync", "async"} }

ConcInit ==
    /\ operation \in ConcOperations
    /\ kw = [r \in ConcRequests |->
                IF r = "r1" THEN EmptyDict ELSE [k \in {"id"} |-> "url"]]
    /\ pc = [r \in ConcRequests |-> "start"]
    /\ request = [r \in ConcRequests |-> NoRequestState]
    /\ error = [r \in ConcRequests |-> NoResponse]
    /\ values = [r \in ConcRequests |-> EmptyDict]
    /\ cbIndex = [r \in ConcRequests |-> 1]
    /\ called = [r \in ConcRequests |-> <<>>]
    /\ temporal_response = [r \in ConcRequests |-> None]
    /\ context = [r \in ConcRequests |-> NoContext]
    /\ result = [r \in ConcRequests |-> None]
    /\ exc = [r \in ConcRequests |-> NoExc]
    /\ returned = [r \in ConcRequests |-> NoResponse]
    /\ events = [r \in ConcRequests |-> <<>>]
    /\ controller = NoController
    /\ permLog = <<>>
    /\ outcome = NoOutcome
    /\ classes = <<>>
    /\ descriptors = <<>>
    /\ routes = <<>>
    /\ routeOwner = <<>>
    /\ registry = {}
    /\ mounted = <<>>
    /\ accessed = <<>>
    /\ path_view = <<>>
    /\ configured = Unconfigured

ConcNext ==
    \E r \in ConcRequests :
        \/ RunChecks(r)
        \/ RunAuthentication(r)
        \/ CheckCsrf(r)
        \/ RunAfterChecks(r)
        \/ CreateTemporalResponse(r)
        \/ PrepRunEnter(r)
        \/ SendStarted(r)
        \/ GetValues(r)
        \/ ViewFunc(r)
        \/ ResultToResponse(r)
        \/ PrepRunLogInfo(r)
        \/ PrepRunExcept(r)
        \/ PrepRunFinally(r)
        \/ RunExcept(r)

SpecConc == ConcInit /\ [][ConcNext]_vars

\* C19: under every interleaving of two runs on one Operation, the context of
\* a run is built for that run's own request from its own keyword arguments,
\* the started signal carries that context, the kwargs merged into it are the
\* ones extracted for that request, and no step of run writes to the
\* Operation.
C19_ContextNeverShared ==
    /\ [](\A r \in ConcRequests :
            /\ context[r].built =>
                  /\ context[r].request = r
                  /\ context[r].temporal_response = temporal_response[r]
                  /\ context[r].kwargs \in {kw[r], Update(kw[r], values[r])}
                  /\ pc[r] \in {"view", "convert", "log_info"}
                        => context[r].kwargs = Update(kw[r], values[r])
            /\ \A i \in DOMAIN events[r] :
                  events[r][i].ev \in {"context_started", "context_built"}
                      => events[r][i].p = r)
    /\ [][operation' = operation]_vars

C19_Witness ==
    /\ pc["r1"] = "view"
    /\ pc["r2"] = "view"
    /\ context["r1"].kwargs = [k \in {"id"} |-> "parsed"]
    /\ context["r2"].kwargs = [k \in {"id"} |-> "url"]
    /\ context["r1"].request = "r1"
    /\ context["r2"].request = "r2"


----------------------------------------------------------------------------
(* ControllerBase.get_api_controller *)

\* cls._api_controller: the attribute of the first class of the method
\* resolution order that sets it; ControllerBase's own value is None.
RECURSIVE ApiControllerAttribute(_, _)
ApiControllerAttribute(cs, mro) ==
    IF mro = <<>> THEN None
    ELSE IF cs[Head(mro)].api_controller # None THEN cs[Head(mro)].api_controller
    ELSE ApiControllerAttribute(cs, Tail(mro))

\* get_api_controller on class c: the descriptor, or the dedicated exception.
GetApiController(cs, c) ==
    LET attr == ApiControllerAttribute(cs, Mro(cs, c)) IN
    IF attr = None
    THEN [cls |-> c, returned |-> None,
          raised |-> "MissingAPIControllerDecoratorException"]
    ELSE [cls |-> c, returned |-> attr, raised |-> None]

\* get_api_controller is a classmethod of ControllerBase subclasses.
GetApiControllerStep(c) ==
    /\ classes[c].derives
    /\ accessed' = GetApiController(classes, c)
    /\ UNCHANGED <<classes, descriptors, routes, routeOwner, registry, mounted,
                   path_view>>
    /\ RegFrame

AccessNext ==
    \/ \E d \in Descriptors, c \in DOMAIN classes : Call(d, c)
    \/ \E c \in DOMAIN classes : GetApiControllerStep(c)

SpecAccess == MountInit /\ [][AccessNext]_vars

\* C20 as stated: get_api_controller raises the missing-decorator exception on
\* every ControllerBase subclass that was never passed through the decorator,
\* an undecorated subclass of a decorated controller included, and returns the
\* descriptor that decorated it on every class that was.
C20_MissingDecoratorSignalled ==
    [][\A c \in DOMAIN classes :
          GetApiControllerStep(c) =>
              IF \E d \in Descriptors : c \in Range(descriptors[d].applied)
              THEN /\ accessed'.raised = None
                   /\ accessed'.returned = classes[c].api_controller
              ELSE /\ accessed'.raised = "MissingAPIControllerDecoratorException"
                   /\ accessed'.returned = None]_vars


----------------------------------------------------------------------------
(* Controller-level defaults and per-route parameters *)

\* Class names with 'controller' as the suffix, as suffix and prefix, and
\* nowhere.
UserController == <<"User", "Controller">>
ControllerUserController == <<"Controller", "User", "Controller">>
Users == <<"Users">>

\* The tags and the auth a descriptor is created with, the operation id and
\* the auth a route declares.  The callables are synchronous.
TagChoices ==
    {NoTags, TagString(<<"t">>), TagString(<<>>), TagList(<<>>),
     TagList(<< <<"t">>, <<"u">> >>)}
ControllerAuths == {NOT_SET, NoAuth, Callable("basic")}
RouteAuths ==
    {NOT_SET, NoAuth, Callable("jwt"), AuthList(<<>>), AuthList(<<"jwt", "basic">>)}
OperationIds == {NoOperationId, ExplicitOperationId("list_users")}

\* Two descriptors created with the same arguments, a controller with two
\* routes, a subclass with one, and a class that does not derive from
\* ControllerBase.
DefaultsInit ==
    /\ classes = << Class(UserController, 0, TRUE, <<"f1", "f2">>),
                    Class(ControllerUserController, 1, TRUE, <<"f3">>),
                    Class(Users, 0, FALSE, <<>>) >>
    /\ \E id \in OperationIds, auth \in RouteAuths :
          routes = [f \in RouteFns |->
                       IF f = "f1" THEN RouteParameter(<<"a">>, id, auth)
                       ELSE IF f = "f2"
                       THEN RouteParameter(<<"a">>, NoOperationId, NOT_SET)
                       ELSE RouteParameter(<<"/", "b">>,
                                ExplicitOperationId("list_admins"), NoAuth)]
    /\ \E auth \in ControllerAuths, tags \in TagChoices :
          descriptors = [d \in Descriptors |->
                            APIControllerInit(<<"/", "p">>, auth, tags)]
    /\ routeOwner = [f \in RouteFns |-> None]
    /\ registry = {}
    /\ mounted = NoMount
    /\ accessed = NoAccess
    /\ path_view = NewPathView
    /\ configured = Unconfigured
    /\ operation = CHOOSE op \in PermOperations : op.view = "plain"
    /\ controller = NoController
    /\ permLog = <<>>
    /\ outcome = NoOutcome
    /\ kw = [r \in Requests |-> EmptyDict]
    /\ pc = [r \in Requests |-> "start"]
    /\ request = [r \in Requests |-> NoRequestState]
    /\ error = [r \in Requests |-> NoResponse]
    /\ values = [r \in Requests |-> EmptyDict]
    /\ cbIndex = [r \in Requests |-> 1]
    /\ called = [r \in Requests |-> <<>>]
    /\ temporal_response = [r \in Requests |-> None]
    /\ context = [r \in Requests |-> NoContext]
    /\ result = [r \in Requests |-> None]
    /\ exc = [r \in Requests |-> NoExc]
    /\ returned = [r \in Requests |-> NoResponse]
    /\ events = [r \in Requests |-> <<>>]

DefaultsNext == \E d \in Descriptors, c \in DOMAIN classes : Call(d, c)

SpecDefaults == DefaultsInit /\ [][DefaultsNext]_vars

\* str.removesuffix: only a trailing occurrence is removed.
RemoveSuffix(s, suffix) ==
    IF s # <<>> /\ s[Len(s)] = suffix THEN SubSeq(s, 1, Len(s) - 1) ELSE s

\* The tags a first decoration should leave: supplied tags as they are, and
\* without tags the lower-cased class name less its 'controller' suffix.
TagsOfFirstDecoration(tags, name) ==
    IF tags = NoTags
    THEN TagList(<<RemoveSuffix(StrLower(name), "controller")>>)
    ELSE tags

\* C21: the first decoration of a class leaves tags that were supplied as they
\* are, and without tags sets the one-element list of the class name in lower
\* case with only its trailing 'controller' removed.
C21_DefaultTagStripsOnlyTheSuffix ==
    [][\A d \in Descriptors :
          (descriptors[d].applied = <<>> /\ descriptors'[d].applied # <<>>) =>
              descriptors'[d].tags =
                  TagsOfFirstDecoration(descriptors[d].tags,
                      classes'[descriptors'[d].applied[1]].name)]_vars


\* The operations a descriptor holds for route function f.
OperationsOf(desc, f) ==
    {desc.path_operations[p].operations[i] :
        <<p, i>> \in {s \in OperationSlots(desc) :
            desc.path_operations[s[1]].operations[s[2]].view_func = f}}

IsExplicit(id) == id.token = None /\ id.name # None

\* C22: a route function that declares an explicit operation id keeps it when
\* it is registered, and its operation is created with that id; the generated
\* id is for routes without one.
C22_ExplicitOperationIdIsKept ==
    [][\A f \in RouteFns :
          IsExplicit(routes[f].operation_id) =>
              /\ routes'[f].operation_id = routes[f].operation_id
              /\ \A d \in Descriptors :
                    \A op \in OperationsOf(descriptors'[d], f) :
                        op.operation_id = routes[f].operation_id]_vars


\* C23: an operation registered for a route whose auth is anything but NOT_SET
\* (a callable, a list, or None for no authentication) is created with the
\* route's auth, not the controller's.
C23_RouteAuthOverridesControllerAuth ==
    \A d \in Descriptors, f \in RouteFns :
        \A op \in OperationsOf(descriptors[d], f) :
            routes[f].auth # NOT_SET => op.auth = routes[f].auth


----------------------------------------------------------------------------
(* Operation.run against AsyncOperation.run, checked under SpecRun *)

\* C24: the exception handed to api.on_exception carries the same message in
\* both modes: an argument-binding TypeError arrives with the rewritten
\* message whether the run was synchronous or asynchronous.
C24_SameMessageInBothModes ==
    \A r \in Requests :
        (pc[r] = "done" /\ exc[r].kind = "TypeErrorArg") =>
            exc[r].msg = "rewritten"


----------------------------------------------------------------------------
(* Operation._set_auth *)

\* A Python bool held in an attribute that may also be None.
Bool(b) == IF b THEN "True" ELSE "False"

\* An auth callback: its name, whether calling it is a coroutine function
\* ("sync" or "async"; None: the object has no __call__), and its is_coroutine
\* attribute (None: not set).
AuthCallback(name, call, flag) ==
    [name |-> name, call |-> call, is_coroutine |-> flag]

\* The empty list as an element of [auth].
EmptyList == AuthCallback("[]", None, None)

\* isinstance(auth, Sequence) and auth or [auth]
AuthCallbacks(auth) ==
    IF auth.kind = "list" /\ auth.items # <<>> THEN auth.items
    ELSE IF auth.kind = "callable" THEN auth.items
    ELSE <<EmptyList>>

\* The loop of _set_auth from callback i on: the callbacks with the flags
\* set so far, and the exception that ended the loop.
RECURSIVE SetAuthLoop(_, _, _)
SetAuthLoop(is_coroutine, cbs, i) ==
    IF i > Len(cbs) THEN [auth_callbacks |-> cbs, raised |-> None]
    ELSE IF cbs[i].call = None
    THEN [auth_callbacks |-> cbs, raised |-> "AttributeError"]
    ELSE LET cb == cbs[i]
             flagged == IF cb.is_coroutine = "True" THEN cb
                        ELSE [cb EXCEPT !.is_coroutine = Bool(cb.call = "async")]
             set == [cbs EXCEPT ![i] = flagged]
         IN  IF cb.call = "async" /\ ~is_coroutine
             THEN [auth_callbacks |-> set, raised |-> "Exception"]
             ELSE SetAuthLoop(is_coroutine, set, i + 1)

\* Operation._set_auth(auth)
SetAuth(op, auth) ==
    IF auth.kind \in {"None", "NOT_SET"} THEN op
    ELSE LET r == SetAuthLoop(op.is_coroutine, AuthCallbacks(auth), 1)
         IN  [op EXCEPT !.auth_callbacks = r.auth_callbacks, !.raised = r.raised]

\* The callbacks an auth value is made of: a callback that was never given to
\* _set_auth has no is_coroutine attribute, one that was carries the flag
\* _set_auth computed.
AuthCallbackChoices ==
    UNION { {AuthCallback(n, c, None), AuthCallback(n, c, Bool(c = "async"))} :
                n \in {"basic", "jwt"}, c \in {"sync", "async"} }
AuthParams ==
    {NOT_SET, NoAuth}
        \cup {Callable(cb) : cb \in AuthCallbackChoices}
        \cup {AuthList(l) : l \in SeqUpTo(AuthCallbackChoices, MaxCallbacks)}

SetAuthStep(auth) ==
    /\ ~configured.called
    /\ configured' = [operation |-> SetAuth(configured.operation, auth),
                      auth |-> auth, called |-> TRUE]
    /\ UNCHANGED <<runVars, permVars, regVars>>

AuthInit ==
    /\ \E is_coroutine \in BOOLEAN :
          configured = [operation |-> NewOperation(is_coroutine),
                        auth |-> NOT_SET, called |-> FALSE]
    /\ classes = <<>>
    /\ routes = [f \in RouteFns |-> RouteParameter(<<>>, NoOperationId, NOT_SET)]
    /\ descriptors = [d \in Descriptors |-> NewDescriptor(<<>>)]
    /\ routeOwner = [f \in RouteFns |-> None]
    /\ registry = {}
    /\ mounted = NoMount
    /\ accessed = NoAccess
    /\ path_view = NewPathView
    /\ operation = CHOOSE op \in PermOperations : op.view = "plain"
    /\ controller = NoController
    /\ permLog = <<>>
    /\ outcome = NoOutcome
    /\ kw = [r \in Requests |-> EmptyDict]
    /\ pc = [r \in Requests |-> "start"]
    /\ request = [r \in Requests |-> NoRequestState]
    /\ error = [r \in Requests |-> NoResponse]
    /\ values = [r \in Requests |-> EmptyDict]
    /\ cbIndex = [r \in Requests |-> 1]
    /\ called = [r \in Requests |-> <<>>]
    /\ temporal_response = [r \in Requests |-> None]
    /\ context = [r \in Requests |-> NoContext]
    /\ result = [r \in Requests |-> None]
    /\ exc = [r \in Requests |-> NoExc]
    /\ returned = [r \in Requests |-> NoResponse]
    /\ events = [r \in Requests |-> <<>>]

AuthNext == \E auth \in AuthParams : SetAuthStep(auth)

SpecAuth == AuthInit /\ [][AuthNext]_vars

\* C25: for an auth that is neither None nor NOT_SET, _set_auth raises exactly
\* when some callback is asynchronous and the handler is synchronous; when it
\* does not raise, auth_callbacks is the given sequence in its order and every
\* callback's is_coroutine says whether it is asynchronous.  None and NOT_SET
\* change nothing.
C25_SetAuthRaisesOnlyForAsyncOnSync ==
    configured.called =>
        LET op == configured.operation
            auth == configured.auth
        IN  IF auth.kind \in {"None", "NOT_SET"}
            THEN op.auth_callbacks = <<>> /\ op.raised = None
            ELSE /\ op.raised # None <=>
                        /\ ~op.is_coroutine
                        /\ \E i \in DOMAIN auth.items : auth.items[i].call = "async"
                 /\ op.raised = None =>
                        /\ Len(op.auth_callbacks) = Len(auth.items)
                        /\ \A i \in DOMAIN auth.items :
                              /\ op.auth_callbacks[i].name = auth.items[i].name
                              /\ op.auth_callbacks[i].is_coroutine =
                                    Bool(auth.items[i].call = "async")


----------------------------------------------------------------------------
(* An auth callback that raises, checked under SpecRun *)

\* C26: in the asynchronous chain a callback that raises was preceded by
\* falsy answers only and is the last one invoked; api.on_exception's response
\* is the outcome of the checks and is what run returns, request.auth stays
\* unassigned and no exception leaves _run_authentication.
C26_RaisingCallbackEndsTheChain ==
    \A r \in Requests :
        \A j \in DOMAIN called[r] :
            (operation.mode = "async" /\ called[r][j].out = "raise") =>
                /\ j = Len(called[r])
                /\ \A m \in 1..(j - 1) : called[r][m].out = Falsy
                /\ request[r].auth = None
                /\ exc[r] = NoExc
                /\ error[r].kind = "on_exception" /\ error[r].body = "auth"
                /\ pc[r] \in {"checked", "done"}
                /\ pc[r] = "done" => returned[r] = error[r]

\* The second of two callbacks raised after the first answered falsy, and the
\* run is over.
C26_Witness ==
    \E r \in Requests :
        /\ operation.mode = "async"
        /\ Len(operation.auth_callbacks) = 2
        /\ Len(called[r]) = 2
        /\ called[r][1].out = Falsy
        /\ called[r][2].out = "raise"
        /\ pc[r] = "done"


----------------------------------------------------------------------------
(* The started and the finished signal of one run, checked under SpecRun *)

Before(seq, j, name) == \E i \in 1..(j - 1) : seq[i].ev = name

\* C27 as stated: every finished signal of a run comes after a started signal
\* of that run.
C27_FinishedPrecededByStarted ==
    \A r \in Requests :
        \A j \in DOMAIN events[r] :
            events[r][j].ev = "context_finished" =>
                Before(events[r], j, "context_started")

\* C27, amended: a finished signal comes after a started signal of its run
\* exactly when the execution context was built; when building the context
\* raised, the finished signal is sent without a started signal.
C27_FinishedPrecededByStartedIfBuilt ==
    \A r \in Requests :
        \A j \in DOMAIN events[r] :
            events[r][j].ev = "context_finished" =>
                (Before(events[r], j, "context_started")
                    <=> Before(events[r], j, "context_built"))

\* Building the context raised: the run is over, the finished signal was sent
\* and no started signal was.
C27_Witness ==
    \E r \in Requests :
        /\ pc[r] = "done"
        /\ exc[r].origin = "context"
        /\ Count(events[r], "context_finished") = 1
        /\ Count(events[r], "context_started") = 0


----------------------------------------------------------------------------
(* Denial without a context or without a request, checked under SpecPerm *)

RuleKind(op) ==
    IF op = "check_permissions" THEN "has_permission" ELSE "has_object_permission"

\* C28: check_permissions and check_object_permissions raise only after
\* evaluating a rule that refuses.  With the context unset no rule is
\* instantiated or evaluated and the call returns; with a context whose request
\* is missing the rules are instantiated but none is evaluated and the call
\* returns, whatever the rules would answer.
C28_DenialOnlyThroughAnEvaluatedRule ==
    outcome.op \in {"check_permissions", "check_object_permissions"} =>
        LET ctx == controller.context
            obj == IF outcome.key = 0 THEN None ELSE Db[outcome.key]
        IN  /\ ~ctx.built => (permLog = <<>> /\ outcome.raised = None)
            /\ (ctx.built /\ ctx.request = None) =>
                  /\ outcome.raised = None
                  /\ \A i \in DOMAIN permLog : permLog[i].ev = "init"
            /\ outcome.raised # None =>
                  /\ permLog # <<>>
                  /\ permLog[Len(permLog)].ev = RuleKind(outcome.op)
                  /\ ~Allows(RuleKind(outcome.op), permLog[Len(permLog)].cls, obj)

\* A context without a request whose first rule refuses everything:
\* check_permissions instantiated the rules and returned.
C28_Witness ==
    /\ outcome.op = "check_permissions"
    /\ controller.context.built
    /\ controller.context.request = None
    /\ controller.context.permission_classes = <<"Deny", "DenyMsg">>
    /\ outcome.raised = None
    /\ Len(permLog) = 2


----------------------------------------------------------------------------
(* The resolved permission list of a controller route, checked under SpecPerm *)

\* C29: the context built for a route of a decorated controller never has an
\* empty permission list: a controller created without permissions, or with an
\* empty list, holds [AllowAny], and a route without a list of its own, or with
\* an empty one, gets the controller's list.
C29_ResolvedPermissionsNeverEmpty ==
    (operation.view = "route" /\ controller.context.built) =>
        /\ controller.context.permission_classes # <<>>
        /\ ~Truthy(operation.permissions) =>
              operation.controller_permissions = <<"AllowAny">>
        /\ ~Truthy(operation.route_permissions) =>
              controller.context.permission_classes = operation.controller_permissions

\* A route declaring an empty list on a controller created with an empty list:
\* the context holds [AllowAny].
C29_Witness ==
    /\ operation.view = "route"
    /\ operation.route_permissions = Declared(<<>>)
    /\ operation.permissions = Declared(<<>>)
    /\ controller.context.built
    /\ controller.context.permission_classes = <<"AllowAny">>

====
